---- MODULE Spec2Model ----
(***************************************************************************)
(* FocusGame.py: the Focus board game for two players.                     *)
(*                                                                         *)
(* FocusGame is the turn/validation layer, Board the state layer.  The     *)
(* session modelled is FocusGame(("Alice","R"), ("Bob","G")).  A call that *)
(* raises a Python exception is modelled as a call whose result is the     *)
(* exception's name; the object keeps the state it had when the exception  *)
(* was raised and later calls are still possible.                          *)
(*                                                                         *)
(* Line 174 of the source reads `moving = []` followed by stray            *)
(* characters; it is modelled as the assignment `moving = []`.             *)
(***************************************************************************)
EXTENDS Integers, Sequences, FiniteSets, TLC

VARIABLES board, reserveA, capturedA, reserveB, capturedB, turn, offTurn,
          last, prev, won, pos, steps

vars == <<board, reserveA, capturedA, reserveB, capturedB, turn, offTurn,
          last, prev, won, pos, steps>>

----------------------------------------------------------------------------
(* Program constants *)

infoA == <<"Alice", "R">>
infoB == <<"Bob", "G">>
None == <<>>

Size == 6
MaxStack == 5
WinCaptured == 6

Cells == (0 .. Size - 1) \X (0 .. Size - 1)

Row0 == <<"R", "R", "G", "G", "R", "R">>
\* Mutant of Row1: the odd rows repeat the even rows.
Row1AsRow0 == <<"R", "R", "G", "G", "R", "R">>

Row1 == <<"G", "G", "R", "R", "G", "G">>

InitBoard == [c \in Cells |-> IF c[1] % 2 = 0 THEN <<Row0[c[2] + 1]>>
                                               ELSE <<Row1[c[2] + 1]>>]

----------------------------------------------------------------------------
(* Bounds and inputs of the exploration *)

MaxSteps == 2
MaxCount == 2
Off == 0 - 1

Mv(p, o, d, n) == [op |-> "move", playerName |-> p, orig |-> o, dest |-> d,
                   piecesMoved |-> n]
Rs(p, d) == [op |-> "reserve", playerName |-> p, orig |-> d, dest |-> d,
             piecesMoved |-> 1]

\* One complete game, played call by call from the initial board.
Script ==
  << Mv("Alice", <<1,2>>, <<1,3>>, 1), Mv("Bob",   <<0,3>>, <<0,2>>, 1),
     Mv("Alice", <<1,3>>, <<0,4>>, 2), Mv("Bob",   <<0,2>>, <<0,4>>, 2),
     Mv("Alice", <<0,5>>, <<0,4>>, 1), Mv("Bob",   <<1,4>>, <<0,4>>, 1),
     Rs("Alice", <<2,1>>),             Mv("Bob",   <<0,4>>, <<2,1>>, 5),
     Mv("Alice", <<0,0>>, <<0,1>>, 1), Mv("Bob",   <<1,1>>, <<2,1>>, 1),
     Mv("Alice", <<0,1>>, <<2,1>>, 2), Mv("Bob",   <<2,2>>, <<2,1>>, 1),
     Mv("Alice", <<2,0>>, <<2,1>>, 1), Mv("Bob",   <<2,3>>, <<2,4>>, 1),
     Mv("Alice", <<2,1>>, <<1,5>>, 5), Mv("Bob",   <<2,4>>, <<1,5>>, 2),
     Mv("Alice", <<2,5>>, <<1,5>>, 1), Rs("Bob",   <<1,0>>),
     Mv("Alice", <<1,5>>, <<1,0>>, 5), Rs("Bob",   <<1,1>>),
     Rs("Bob",   <<1,1>>),             Mv("Bob",   <<1,1>>, <<1,0>>, 1) >>

Registered == {infoA[1], infoB[1]}
Names == Registered \cup {"Eve"}
FreeCells == {<<0,1>>, <<1,0>>, <<1,1>>, <<2,1>>}
OutCells == {<<0 - 1, 0>>, <<0, 0 - 1>>, <<Size, 0>>, <<0, Size>>}

FreeMoves ==
  {Mv(p, o, d, n) : p \in Registered, o \in FreeCells, d \in FreeCells,
                    n \in 0 .. MaxCount}
  \cup {Mv(p, o, <<0,1>>, 1) : p \in Registered, o \in OutCells}
  \cup {Mv(p, <<0,1>>, d, 1) : p \in Registered, d \in OutCells}
  \cup {Mv(p, <<0,1>>, <<1,1>>, 0 - 1) : p \in Registered}
  \cup {Mv("Eve", <<0,1>>, <<1,1>>, 1)}
  \cup {Mv(infoA[1], <<0,0>>, <<0,1>>, 1)}

FreeReserves == {Rs(p, d) : p \in Names, d \in FreeCells \cup OutCells}

OnScript(call) == pos # Off /\ pos < Len(Script) /\ call = Script[pos + 1]

\* The calls the environment may make next.
Calls == (IF pos # Off /\ pos < Len(Script) THEN {Script[pos + 1]} ELSE {})
         \cup (IF steps < MaxSteps THEN FreeMoves \cup FreeReserves ELSE {})

Schedule(call) ==
  IF OnScript(call) THEN pos' = pos + 1 /\ steps' = steps
                    ELSE pos' = Off /\ steps' = steps + 1

----------------------------------------------------------------------------
(* Helpers *)

Abs(x) == IF x < 0 THEN 0 - x ELSE x

Wins(name) == IF name = infoA[1] THEN "Alice Wins!" ELSE "Bob Wins!"

\* The state at the entry of the last call.
Snapshot == [board |-> board, reserveA |-> reserveA, capturedA |-> capturedA,
             reserveB |-> reserveB, capturedB |-> capturedB,
             turn |-> turn, offTurn |-> offTurn]

Current == Snapshot

\* History: some call before the last one was a move that returned a win.
Remember ==
  won' = (won \/ (last.op = "move"
                  /\ last.result \in {Wins(infoA[1]), Wins(infoB[1])}))

Done(call, result) == [op |-> call.op, playerName |-> call.playerName,
                       orig |-> call.orig, dest |-> call.dest,
                       piecesMoved |-> call.piecesMoved, result |-> result]

----------------------------------------------------------------------------
(* Board *)

\* Board.show_pieces
show_pieces(b, p) == b[p]

\* Board.move_piece, first loop: the pieces popped off the origin,
\* in the order they are appended to `moving` (former top first).
RECURSIVE TakeTop(_, _)
TakeTop(stack, n) ==
  IF n <= 0 THEN <<>>
  ELSE <<stack[Len(stack)]>> \o TakeTop(SubSeq(stack, 1, Len(stack) - 1), n - 1)

\* Mutant of DropTop: the moved pieces are copied, not deleted.
DropTopNone(stack, n) == stack

\* Board.move_piece, first loop: what is left of the origin.
RECURSIVE DropTop(_, _)
DropTop(stack, n) ==
  IF n <= 0 THEN stack
  ELSE DropTop(SubSeq(stack, 1, Len(stack) - 1), n - 1)

\* Mutant of PutOn: the moved pieces are appended in the order they were
\* popped, former top first.
PutOnPopped(stack, moving) == stack \o moving

\* Board.move_piece, second loop: append moving[-1], delete it, until empty.
RECURSIVE PutOn(_, _)
PutOn(stack, moving) ==
  IF moving = <<>> THEN stack
  ELSE PutOn(Append(stack, moving[Len(moving)]),
             SubSeq(moving, 1, Len(moving) - 1))

\* Board.move_piece, overflow: the pieces taken from the bottom.
Excess(stack) ==
  IF Len(stack) > MaxStack THEN SubSeq(stack, 1, Len(stack) - MaxStack)
  ELSE <<>>

\* Mutant of Keep: the overflow is not taken off the destination.
KeepAll(stack) == stack

\* Board.move_piece, overflow: the stack that stays.
Keep(stack) ==
  IF Len(stack) > MaxStack
  THEN SubSeq(stack, Len(stack) - MaxStack + 1, Len(stack))
  ELSE stack

\* Mutant of Tally: pieces of the player's colour go to captured and the
\* others to reserve.
TallySwapped(moving, color) ==
  LET own == Cardinality({i \in 1 .. Len(moving) : moving[i] = color})
  IN <<Len(moving) - own, own>>

\* Board.move_piece, accounting loop: <<to reserve, to captured>> for a
\* player of the given colour.
RECURSIVE Tally(_, _)
Tally(moving, color) ==
  IF moving = <<>> THEN <<0, 0>>
  ELSE LET rest == Tally(Tail(moving), color)
       IN IF moving[1] = color THEN <<rest[1] + 1, rest[2]>>
                               ELSE <<rest[1], rest[2] + 1>>

\* Mutant of WinCheck: player B is checked before player A.
WinCheckBFirst(cA, cB) ==
  IF cB >= WinCaptured THEN Wins(infoB[1])
  ELSE IF cA >= WinCaptured THEN Wins(infoA[1])
  ELSE "Successfully moved"

\* Board.move_piece, final check.
WinCheck(cA, cB) ==
  IF cA >= WinCaptured THEN Wins(infoA[1])
  ELSE IF cB >= WinCaptured THEN Wins(infoB[1])
  ELSE "Successfully moved"

\* Mutant of BoardMove: the overflow is credited to both players, each by
\* their own colour.
BoardMoveCreditBoth(s, playerName, orig, dest, piecesMoved) ==
  LET moving == TakeTop(s.board[orig], piecesMoved)
      b1 == [s.board EXCEPT ![orig] = DropTop(s.board[orig], piecesMoved)]
      full == PutOn(b1[dest], moving)
      out == Excess(full)
      b2 == [b1 EXCEPT ![dest] = Keep(full)]
      tA == Tally(out, infoA[2])
      tB == Tally(out, infoB[2])
      rA == s.reserveA + tA[1]
      cA == s.capturedA + tA[2]
      rB == s.reserveB + tB[1]
      cB == s.capturedB + tB[2]
  IN [board |-> b2, reserveA |-> rA, capturedA |-> cA, reserveB |-> rB,
      capturedB |-> cB, result |-> WinCheck(cA, cB)]

\* Mutant of BoardMove: the captured counts are assigned, not incremented.
BoardMoveAssign(s, playerName, orig, dest, piecesMoved) ==
  LET moving == TakeTop(s.board[orig], piecesMoved)
      b1 == [s.board EXCEPT ![orig] = DropTop(s.board[orig], piecesMoved)]
      full == PutOn(b1[dest], moving)
      out == Excess(full)
      b2 == [b1 EXCEPT ![dest] = Keep(full)]
      tA == IF playerName = infoA[1] THEN Tally(out, infoA[2]) ELSE <<0, 0>>
      tB == IF playerName # infoA[1] /\ playerName = infoB[1]
            THEN Tally(out, infoB[2]) ELSE <<0, 0>>
      rA == s.reserveA + tA[1]
      cA == IF playerName = infoA[1] THEN tA[2] ELSE s.capturedA
      rB == s.reserveB + tB[1]
      cB == IF playerName = infoB[1] THEN tB[2] ELSE s.capturedB
  IN [board |-> b2, reserveA |-> rA, capturedA |-> cA, reserveB |-> rB,
      capturedB |-> cB, result |-> WinCheck(cA, cB)]

\* Board.move_piece: the board state after the move and the message.
BoardMove(s, playerName, orig, dest, piecesMoved) ==
  LET moving == TakeTop(s.board[orig], piecesMoved)
      b1 == [s.board EXCEPT ![orig] = DropTop(s.board[orig], piecesMoved)]
      full == PutOn(b1[dest], moving)
      out == Excess(full)
      b2 == [b1 EXCEPT ![dest] = Keep(full)]
      tA == IF playerName = infoA[1] THEN Tally(out, infoA[2]) ELSE <<0, 0>>
      tB == IF playerName # infoA[1] /\ playerName = infoB[1]
            THEN Tally(out, infoB[2]) ELSE <<0, 0>>
      rA == s.reserveA + tA[1]
      cA == s.capturedA + tA[2]
      rB == s.reserveB + tB[1]
      cB == s.capturedB + tB[2]
  IN [board |-> b2, reserveA |-> rA, capturedA |-> cA, reserveB |-> rB,
      capturedB |-> cB, result |-> WinCheck(cA, cB)]

\* Values returned by show_reserve: an integer or the string "Invalid input".
IntVal(n) == [kind |-> "int", n |-> n, msg |-> ""]
StrVal(m) == [kind |-> "str", n |-> 0, msg |-> m]

\* Mutant of show_reserve: both registered names read player A's reserve.
show_reserve_first(s, playerName) ==
  IF playerName = infoA[1] \/ playerName = infoB[1] THEN IntVal(s.reserveA)
  ELSE StrVal("Invalid input")

\* Board.show_reserve
show_reserve(s, playerName) ==
  IF playerName = infoA[1] THEN IntVal(s.reserveA)
  ELSE IF playerName = infoB[1] THEN IntVal(s.reserveB)
  ELSE StrVal("Invalid input")

\* Python list indexing: a negative index counts from the end.
InRange(i) == i >= 0 - Size /\ i <= Size - 1
Index(i) == IF i < 0 THEN i + Size ELSE i

\* Mutant of BoardReserve: player A's reserve is not decremented.
BoardReserveNoDecrement(s, playerName, dest) ==
  IF ~(InRange(dest[1]) /\ InRange(dest[2]))
  THEN [board |-> s.board, reserveA |-> s.reserveA, result |-> "IndexError"]
  ELSE LET c == <<Index(dest[1]), Index(dest[2])>>
           b1 == IF playerName = infoA[1]
                 THEN [s.board EXCEPT ![c] = Append(@, infoA[2])]
                 ELSE IF playerName = infoB[1]
                 THEN [s.board EXCEPT ![c] = Append(@, infoB[2])]
                 ELSE s.board
           b2 == IF Len(b1[c]) > MaxStack THEN [b1 EXCEPT ![c] = Tail(@)]
                 ELSE b1
       IN [board |-> b2, reserveA |-> s.reserveA,
           result |-> "Successfully moved"]

\* Mutant of BoardReserve: the branch of player B decrements player A's
\* reserve.
BoardReserveWrongCounter(s, playerName, dest) ==
  IF ~(InRange(dest[1]) /\ InRange(dest[2]))
  THEN [board |-> s.board, reserveA |-> s.reserveA, result |-> "IndexError"]
  ELSE LET c == <<Index(dest[1]), Index(dest[2])>>
           b1 == IF playerName = infoA[1]
                 THEN [s.board EXCEPT ![c] = Append(@, infoA[2])]
                 ELSE IF playerName = infoB[1]
                 THEN [s.board EXCEPT ![c] = Append(@, infoB[2])]
                 ELSE s.board
           rA == IF playerName = infoA[1] \/ playerName = infoB[1]
                 THEN s.reserveA - 1 ELSE s.reserveA
           b2 == IF Len(b1[c]) > MaxStack THEN [b1 EXCEPT ![c] = Tail(@)]
                 ELSE b1
       IN [board |-> b2, reserveA |-> rA, result |-> "Successfully moved"]

\* Mutant of BoardReserve: the overflow is deleted at index -1, the top.
BoardReserveDropTop(s, playerName, dest) ==
  IF ~(InRange(dest[1]) /\ InRange(dest[2]))
  THEN [board |-> s.board, reserveA |-> s.reserveA, result |-> "IndexError"]
  ELSE LET c == <<Index(dest[1]), Index(dest[2])>>
           b1 == IF playerName = infoA[1]
                 THEN [s.board EXCEPT ![c] = Append(@, infoA[2])]
                 ELSE IF playerName = infoB[1]
                 THEN [s.board EXCEPT ![c] = Append(@, infoB[2])]
                 ELSE s.board
           rA == IF playerName = infoA[1] THEN s.reserveA - 1 ELSE s.reserveA
           b2 == IF Len(b1[c]) > MaxStack
                 THEN [b1 EXCEPT ![c] = SubSeq(@, 1, Len(@) - 1)]
                 ELSE b1
       IN [board |-> b2, reserveA |-> rA, result |-> "Successfully moved"]

\* Board.reserved_move: the board state after the placement and the message;
\* an index out of range raises IndexError at the first access of the cell.
BoardReserve(s, playerName, dest) ==
  IF ~(InRange(dest[1]) /\ InRange(dest[2]))
  THEN [board |-> s.board, reserveA |-> s.reserveA, result |-> "IndexError"]
  ELSE LET c == <<Index(dest[1]), Index(dest[2])>>
           b1 == IF playerName = infoA[1]
                 THEN [s.board EXCEPT ![c] = Append(@, infoA[2])]
                 ELSE IF playerName = infoB[1]
                 THEN [s.board EXCEPT ![c] = Append(@, infoB[2])]
                 ELSE s.board
           rA == IF playerName = infoA[1] THEN s.reserveA - 1 ELSE s.reserveA
           b2 == IF Len(b1[c]) > MaxStack THEN [b1 EXCEPT ![c] = Tail(@)]
                 ELSE b1
       IN [board |-> b2, reserveA |-> rA, result |-> "Successfully moved"]

----------------------------------------------------------------------------
(* FocusGame *)

\* Mutant of SetUpTurn: the caller becomes the current player on every call,
\* not only while the turn is unset.
SetUpTurnAlways(t, o, playerName) ==
  IF playerName = infoA[1] THEN <<infoA, infoB>>
  ELSE IF playerName = infoB[1] THEN <<infoB, infoA>>
  ELSE <<t, o>>

\* FocusGame.move_piece, lines 40-46: <<turn, offTurn>> after the set-up.
SetUpTurn(t, o, playerName) ==
  IF t = None
  THEN IF playerName = infoA[1] THEN <<infoA, infoB>>
       ELSE IF playerName = infoB[1] THEN <<infoB, infoA>>
       ELSE <<t, o>>
  ELSE <<t, o>>

OnBoard(p) == ~(p[1] < 0 \/ p[1] > 5 \/ p[2] < 0 \/ p[2] > 5)

\* FocusGame.move_piece, lines 49-71: the message of the first failing check,
\* the exception raised on the way, or "ok".
Validate(b, t, playerName, orig, dest, piecesMoved) ==
  IF t = None THEN "TypeError"
  ELSE IF t[1] # playerName THEN "Not your turn"
  ELSE IF ~OnBoard(orig) THEN "Invalid location"
  ELSE IF ~OnBoard(dest) THEN "Invalid location"
  ELSE IF Abs(orig[1] - dest[1]) + Abs(orig[2] - dest[2]) # piecesMoved
       THEN "Invalid number of spaces"
  ELSE IF piecesMoved > Len(show_pieces(b, orig))
       THEN "Invalid number of pieces"
  ELSE IF show_pieces(b, orig) = <<>> THEN "IndexError"
  ELSE IF show_pieces(b, orig)[Len(show_pieces(b, orig))] # t[2]
       THEN "Invalid selection -- not your color"
  ELSE "ok"

\* FocusGame.move_piece, lines 75-77: <<turn, offTurn>> after the switch.
MoveSwap(t, o) == <<o, t>>

\* Mutant of ReserveSwap: the turn is not switched.
ReserveNoSwap(t, o) == <<t, o>>

\* FocusGame.reserved_move, lines 120-122: <<turn, offTurn>> after the switch.
ReserveSwap(t, o) == <<o, t>>

\* FocusGame.move_piece
move_piece(call) ==
  LET playerName == call.playerName
      set == SetUpTurn(turn, offTurn, playerName)
      v == Validate(board, set[1], playerName, call.orig, call.dest,
                    call.piecesMoved)
      m == BoardMove(Current, playerName, call.orig, call.dest,
                     call.piecesMoved)
  IN /\ call.op = "move"
     /\ prev' = Snapshot
     /\ Remember
     /\ Schedule(call)
     /\ IF v = "ok"
        THEN /\ turn' = MoveSwap(set[1], set[2])[1]
             /\ offTurn' = MoveSwap(set[1], set[2])[2]
             /\ board' = m.board
             /\ reserveA' = m.reserveA
             /\ capturedA' = m.capturedA
             /\ reserveB' = m.reserveB
             /\ capturedB' = m.capturedB
             /\ last' = Done(call, m.result)
        ELSE /\ turn' = set[1]
             /\ offTurn' = set[2]
             /\ UNCHANGED <<board, reserveA, capturedA, reserveB, capturedB>>
             /\ last' = Done(call, v)

\* FocusGame.reserved_move
reserved_move(call) ==
  LET playerName == call.playerName
      reserve == show_reserve(Current, playerName)
      m == BoardReserve(Current, playerName, call.dest)
  IN /\ call.op = "reserve"
     /\ prev' = Snapshot
     /\ Remember
     /\ Schedule(call)
     /\ IF reserve = IntVal(0)
        THEN /\ UNCHANGED <<board, reserveA, capturedA, reserveB, capturedB,
                            turn, offTurn>>
             /\ last' = Done(call, "No pieces in reserve")
        ELSE /\ turn' = ReserveSwap(turn, offTurn)[1]
             /\ offTurn' = ReserveSwap(turn, offTurn)[2]
             /\ board' = m.board
             /\ reserveA' = m.reserveA
             /\ UNCHANGED <<capturedA, reserveB, capturedB>>
             /\ last' = Done(call, m.result)

----------------------------------------------------------------------------

Init ==
  /\ board = InitBoard
  /\ reserveA = 0
  /\ capturedA = 0
  /\ reserveB = 0
  /\ capturedB = 0
  /\ turn = None
  /\ offTurn = None
  /\ last = [op |-> "none", playerName |-> "", orig |-> <<0,0>>,
             dest |-> <<0,0>>, piecesMoved |-> 0, result |-> ""]
  /\ prev = [board |-> InitBoard, reserveA |-> 0, capturedA |-> 0,
             reserveB |-> 0, capturedB |-> 0, turn |-> None, offTurn |-> None]
  /\ won = FALSE
  /\ pos = 0
  /\ steps = 0

Next ==
  \/ \E call \in Calls : move_piece(call)
  \/ \E call \in Calls : reserved_move(call)

Spec == Init /\ [][Next]_vars

----------------------------------------------------------------------------
(* Vocabulary of the properties *)

Success == "Successfully moved"
Accepted == {Success, Wins(infoA[1]), Wins(infoB[1])}
WrongTurn == "Not your turn"
OutOfBounds == "Invalid location"
InvalidDistance == "Invalid number of spaces"
InsufficientPieces == "Invalid number of pieces"
WrongOwner == "Invalid selection -- not your color"
EmptyReserve == "No pieces in reserve"
MoveRejections == {WrongTurn, OutOfBounds, InvalidDistance, InsufficientPieces,
                   WrongOwner}

IsMove == last.op = "move"
IsReserve == last.op = "reserve"
MoveAccepted == IsMove /\ last.result \in Accepted
ReserveAccepted == IsReserve /\ last.result \in Accepted

InfoOf(name) == IF name = infoA[1] THEN infoA ELSE infoB
OtherInfo(name) == IF name = infoA[1] THEN infoB ELSE infoA

CountersUnchanged ==
  /\ reserveA = prev.reserveA /\ capturedA = prev.capturedA
  /\ reserveB = prev.reserveB /\ capturedB = prev.capturedB

Top(stack) == stack[Len(stack)]
LastFive(stack) ==
  IF Len(stack) > 5 THEN SubSeq(stack, Len(stack) - 4, Len(stack)) ELSE stack
Count(stack, color) == Cardinality({i \in 1 .. Len(stack) : stack[i] = color})

\* The pieces an accepted move carries, bottom to top, and the stack the
\* destination would hold before any overflow is removed.
Carried == SubSeq(prev.board[last.orig],
                  Len(prev.board[last.orig]) - last.piecesMoved + 1,
                  Len(prev.board[last.orig]))
Piled == IF last.orig = last.dest THEN prev.board[last.dest]
         ELSE prev.board[last.dest] \o Carried
Removed == SubSeq(Piled, 1, Len(Piled) - 5)

----------------------------------------------------------------------------
(* C1 *)

\* C1: in every reachable state each of the 36 cells holds a stack of
\* length between 0 and 5.
C1_StackLengths == \A c \in Cells : Len(board[c]) >= 0 /\ Len(board[c]) <= 5

\* A reserve placement on a cell that already held five pieces.
C1_Witness ==
  /\ ReserveAccepted
  /\ last.dest \in Cells
  /\ Len(prev.board[last.dest]) = 5
  /\ board[last.dest] # prev.board[last.dest]

----------------------------------------------------------------------------
(* C2 *)

\* C2: once the turn is set, an accepted move or reserve placement swaps
\* the current and the other player, and a rejected move or reserve
\* placement leaves both as they were.
C2_TurnAlternates ==
  (last.op # "none" /\ prev.turn # None) =>
     /\ last.result \in Accepted =>
          turn = prev.offTurn /\ offTurn = prev.turn
     /\ last.result \in MoveRejections \cup {EmptyReserve} =>
          turn = prev.turn /\ offTurn = prev.offTurn

\* An accepted reserve placement made when the turn was set.
C2_Witness ==
  /\ ReserveAccepted
  /\ last.playerName \in Registered
  /\ prev.turn # None
  /\ turn = prev.offTurn
  /\ turn # prev.turn

----------------------------------------------------------------------------
(* C3 *)

\* C3 as stated: a rejected move leaves the whole state unchanged, the
\* unset turn of a first call included.
C3_Original == (IsMove /\ last.result \in MoveRejections) => Current = prev

\* C3, amended: a rejected move leaves every cell and the four counters
\* unchanged; it leaves the turn unchanged when the turn was already set,
\* and when the turn was unset it makes the caller the current player and
\* the other registered player the other player.
C3_RejectedMove ==
  (IsMove /\ last.result \in MoveRejections) =>
     /\ board = prev.board
     /\ CountersUnchanged
     /\ prev.turn # None => turn = prev.turn /\ offTurn = prev.offTurn
     /\ prev.turn = None => /\ turn = InfoOf(last.playerName)
                            /\ offTurn = OtherInfo(last.playerName)
                            /\ last.playerName \in Registered

\* A rejected first call: the turn was unset at entry and is set at exit.
C3_Witness ==
  /\ IsMove
  /\ last.result \in MoveRejections
  /\ prev.turn = None
  /\ turn # None

----------------------------------------------------------------------------
(* C4 *)

\* C4 as stated: every accepted move has a count other than 0 and an origin
\* and a destination that differ and share a row or a column.
C4_AxisAligned ==
  MoveAccepted =>
     /\ last.orig # last.dest
     /\ last.piecesMoved # 0
     /\ last.orig[1] = last.dest[1] \/ last.orig[2] = last.dest[2]

----------------------------------------------------------------------------
(* C5 *)

\* C5 as stated: every call of move returns one of the named outcomes and
\* never ends in a fault.
C5_NamedOutcome == IsMove => last.result \in Accepted \cup MoveRejections

----------------------------------------------------------------------------
(* C6 *)

\* The outcome the ordered checks prescribe, computed from the state at the
\* entry of the call; "accepted" when none of the five checks fails.
C6_Expected ==
  LET t == IF prev.turn = None THEN InfoOf(last.playerName) ELSE prev.turn
      o == last.orig
      d == last.dest
      n == last.piecesMoved
      in(p) == p[1] >= 0 /\ p[1] <= 5 /\ p[2] >= 0 /\ p[2] <= 5
  IN IF t[1] # last.playerName THEN WrongTurn
     ELSE IF ~in(o) \/ ~in(d) THEN OutOfBounds
     ELSE IF Abs(o[1] - d[1]) + Abs(o[2] - d[2]) # n THEN InvalidDistance
     ELSE IF n > Len(prev.board[o]) THEN InsufficientPieces
     ELSE IF prev.board[o] = <<>> \/ Top(prev.board[o]) # t[2] THEN WrongOwner
     ELSE "accepted"

\* C6 as stated: a move by a registered player returns the outcome of the
\* first failing check, and is accepted exactly when no check fails (an
\* origin without a top piece counts as failing the ownership check or as
\* passing it).
C6_FirstFailingCheck ==
  (IsMove /\ last.playerName \in Registered) =>
     \/ C6_Expected = "accepted" /\ last.result \in Accepted
     \/ C6_Expected # "accepted" /\ last.result = C6_Expected
     \/ /\ C6_Expected = WrongOwner
        /\ prev.board[last.orig] = <<>>
        /\ last.result \in Accepted

----------------------------------------------------------------------------
(* C7 *)

\* C7: an accepted move removes exactly the top count pieces of the origin
\* and makes the destination its old contents followed by those pieces in
\* their original order, cut to its top 5; the origin's former top is the
\* destination's new top.
C7_MoveEffect ==
  MoveAccepted =>
     /\ last.orig # last.dest =>
          board[last.orig] =
            SubSeq(prev.board[last.orig], 1,
                   Len(prev.board[last.orig]) - last.piecesMoved)
     /\ board[last.dest] = LastFive(Piled)
     /\ Top(board[last.dest]) = Top(prev.board[last.orig])

\* An accepted move of a whole stack of at least two pieces that overfills
\* the destination.
C7_Witness ==
  /\ MoveAccepted
  /\ last.piecesMoved >= 2
  /\ last.piecesMoved = Len(prev.board[last.orig])
  /\ board[last.orig] = <<>>
  /\ Len(Piled) > 5

----------------------------------------------------------------------------
(* C8 *)

\* C8: an accepted move by P whose destination would hold n > 5 pieces adds
\* to P's reserve the number of removed pieces of P's colour and to P's
\* captured count the number of removed pieces of the other colour; when
\* n <= 5 no counter changes.
C8_OverflowAccounting ==
  MoveAccepted =>
     IF Len(Piled) > 5
     THEN LET own == Count(Removed, InfoOf(last.playerName)[2])
              other == Len(Removed) - own
          IN /\ Len(board[last.dest]) = Len(Piled) - Len(Removed)
             /\ IF last.playerName = infoA[1]
                THEN /\ reserveA = prev.reserveA + own
                     /\ capturedA = prev.capturedA + other
                ELSE /\ reserveB = prev.reserveB + own
                     /\ capturedB = prev.capturedB + other
     ELSE CountersUnchanged

\* An accepted move whose overflow holds pieces of both colours.
C8_Witness ==
  /\ MoveAccepted
  /\ Len(Piled) > 5
  /\ Count(Removed, "R") >= 1
  /\ Count(Removed, "G") >= 1

----------------------------------------------------------------------------
(* C9 *)

\* C9: an accepted move names player A as the winner exactly when A's
\* captured count is >= 6 after the move, otherwise player B exactly when
\* B's is, and otherwise returns the success acknowledgement.
C9_WinOutcome ==
  MoveAccepted =>
     last.result = IF capturedA >= 6 THEN "Alice Wins!"
                   ELSE IF capturedB >= 6 THEN "Bob Wins!"
                   ELSE Success

\* Both counts at 6 or more after a move made by player B.
C9_Witness ==
  /\ MoveAccepted
  /\ last.playerName = infoB[1]
  /\ capturedA >= 6
  /\ capturedB >= 6
  /\ last.result = "Alice Wins!"

----------------------------------------------------------------------------
(* C10 *)

\* C10: a reserve placement by a registered player whose reserve is 0
\* returns EmptyReserve and leaves cells, counters and turn unchanged.
C10_EmptyReserve ==
  (/\ IsReserve
   /\ last.playerName \in Registered
   /\ (IF last.playerName = infoA[1] THEN prev.reserveA ELSE prev.reserveB) = 0)
  => /\ last.result = EmptyReserve
     /\ Current = prev

\* Player B, with an empty reserve, asks for a placement while player A
\* has a piece in reserve.
C10_Witness ==
  /\ IsReserve
  /\ last.playerName = infoB[1]
  /\ prev.reserveB = 0
  /\ prev.reserveA > 0
  /\ last.result = EmptyReserve

----------------------------------------------------------------------------
(* Vocabulary of the reserve placement *)

\* The cell a placement writes: Python counts a negative index from the end.
PlaceCell == <<IF last.dest[1] < 0 THEN last.dest[1] + 6 ELSE last.dest[1],
               IF last.dest[2] < 0 THEN last.dest[2] + 6 ELSE last.dest[2]>>

ByRegistered == last.playerName \in Registered
OwnColor == InfoOf(last.playerName)[2]
WinOutcomes == {Wins(infoA[1]), Wins(infoB[1])}

----------------------------------------------------------------------------
(* C11 *)

----------------------------------------------------------------------------
(* C12 *)

\* C12: an accepted reserve placement on a stack of five removes exactly the
\* bottom piece and adds it to no counter; the call returns the plain
\* success acknowledgement whatever the captured counts are.
C12_PlacementOverflow ==
  ReserveAccepted =>
     /\ last.result = Success
     /\ capturedA = prev.capturedA
     /\ capturedB = prev.capturedB
     /\ reserveA <= prev.reserveA
     /\ reserveB <= prev.reserveB
     /\ (ByRegistered /\ Len(prev.board[PlaceCell]) = 5) =>
          board[PlaceCell] = Append(Tail(prev.board[PlaceCell]), OwnColor)

\* A placement on a full stack after a player's captured count reached 6.
C12_Witness ==
  /\ ReserveAccepted
  /\ ByRegistered
  /\ Len(prev.board[PlaceCell]) = 5
  /\ Len(board[PlaceCell]) = 5
  /\ capturedA >= 6 \/ capturedB >= 6
  /\ last.result = Success

----------------------------------------------------------------------------
(* C13 *)

\* The call move("Alice", (0,0), (0,1), 1) made on the state after
\* construction.
C13_Call ==
  /\ IsMove
  /\ last.playerName = "Alice"
  /\ last.orig = <<0, 0>>
  /\ last.dest = <<0, 1>>
  /\ last.piecesMoved = 1
  /\ prev.board = InitBoard
  /\ prev.turn = None

\* C13 as stated: the call succeeds, empties (0,0) and leaves (0,1) holding
\* [R,G] bottom to top.
C13_Original ==
  C13_Call => /\ last.result = Success
              /\ board[<<0, 0>>] = <<>>
              /\ board[<<0, 1>>] = <<"R", "G">>

\* C13, amended: the call succeeds, empties (0,0) and leaves (0,1) holding
\* [R,R] bottom to top.
C13_Scenario ==
  C13_Call => /\ last.result = Success
              /\ board[<<0, 0>>] = <<>>
              /\ board[<<0, 1>>] = <<"R", "R">>

\* The call has been made and accepted.
C13_Witness == C13_Call /\ last.result = Success /\ turn = infoB

----------------------------------------------------------------------------
(* C14 *)

C14_Layout ==
  << <<"R", "R", "G", "G", "R", "R">>,
     <<"G", "G", "R", "R", "G", "G">>,
     <<"R", "R", "G", "G", "R", "R">>,
     <<"G", "G", "R", "R", "G", "G">>,
     <<"R", "R", "G", "G", "R", "R">>,
     <<"G", "G", "R", "R", "G", "G">> >>

\* C14: in the initial state every cell holds exactly one piece in the fixed
\* layout (18 R and 18 G), all four counters are 0 and the turn is unset.
C14_InitialState ==
  last.op = "none" =>
     /\ \A c \in Cells : board[c] = <<C14_Layout[c[1] + 1][c[2] + 1]>>
     /\ Cardinality({c \in Cells : board[c] = <<"R">>}) = 18
     /\ Cardinality({c \in Cells : board[c] = <<"G">>}) = 18
     /\ reserveA = 0 /\ reserveB = 0 /\ capturedA = 0 /\ capturedB = 0
     /\ turn = None /\ offTurn = None

\* The state after construction, before any call.
C14_Witness ==
  /\ last.op = "none"
  /\ board[<<0, 0>>] = <<"R">>
  /\ board[<<0, 1>>] = <<"R">>
  /\ board[<<5, 5>>] = <<"G">>

----------------------------------------------------------------------------
(* C15 *)

\* C15: both reserve counts and both captured counts are never negative.
C15_NonNegative ==
  reserveA >= 0 /\ reserveB >= 0 /\ capturedA >= 0 /\ capturedB >= 0

\* Player A places its last reserve piece.
C15_Witness ==
  /\ ReserveAccepted
  /\ last.playerName = infoA[1]
  /\ prev.reserveA = 1
  /\ reserveA = 0

----------------------------------------------------------------------------
(* C16 *)

\* C16 as stated: a reserve placement is accepted only for the player whose
\* turn it is.
C16_PlacementOnTurn ==
  (ReserveAccepted /\ ByRegistered /\ last.dest \in Cells) =>
     prev.turn # None /\ prev.turn[1] = last.playerName

----------------------------------------------------------------------------
(* C17 *)

\* C17 as stated: a reserve placement under a name that matches neither
\* player does not return the success acknowledgement and leaves cells,
\* counters and turn unchanged.
C17_UnknownPlayer ==
  (IsReserve /\ ~ByRegistered /\ last.dest \in Cells) =>
     last.result # Success /\ Current = prev

----------------------------------------------------------------------------
(* C18 *)

RECURSIVE OnBoardUpTo(_, _)
OnBoardUpTo(b, k) ==
  IF k < 0 THEN 0 ELSE Len(b[<<k \div 6, k % 6>>]) + OnBoardUpTo(b, k - 1)

\* Pieces on the board plus both reserves plus both captured counts.
Pieces(s) == OnBoardUpTo(s.board, 35) + s.reserveA + s.reserveB
             + s.capturedA + s.capturedB

\* C18 as stated: the number of pieces on the board plus the four counters
\* is at most 36, and an accepted move leaves that total unchanged.
C18_NoCreation ==
  /\ Pieces(Current) <= 36
  /\ MoveAccepted => Pieces(Current) = Pieces(prev)

----------------------------------------------------------------------------
(* C19 *)

\* C19: an accepted move changes no cell but its origin and destination and
\* leaves the other player's counters unchanged; an accepted reserve
\* placement changes no cell but its destination and no captured count.
C19_Frame ==
  /\ MoveAccepted =>
       /\ \A c \in Cells \ {last.orig, last.dest} : board[c] = prev.board[c]
       /\ last.playerName = infoA[1] =>
            reserveB = prev.reserveB /\ capturedB = prev.capturedB
       /\ last.playerName = infoB[1] =>
            reserveA = prev.reserveA /\ capturedA = prev.capturedA
  /\ ReserveAccepted =>
       /\ \A c \in Cells \ {PlaceCell} : board[c] = prev.board[c]
       /\ capturedA = prev.capturedA
       /\ capturedB = prev.capturedB

\* A capturing move by player B while player A holds captured pieces.
C19_Witness ==
  /\ MoveAccepted
  /\ last.playerName = infoB[1]
  /\ last.orig # last.dest
  /\ capturedB > prev.capturedB
  /\ capturedA >= 1
  /\ capturedA = prev.capturedA

----------------------------------------------------------------------------
(* C20 *)

\* C20: the captured counts never decrease, and once an accepted move has
\* returned a win outcome every later accepted move returns a win outcome.
C20_WinPermanent ==
  /\ capturedA >= prev.capturedA
  /\ capturedB >= prev.capturedB
  /\ (won /\ MoveAccepted) => last.result \in WinOutcomes

\* A move accepted after an earlier move had returned a win.
C20_Witness ==
  /\ won
  /\ MoveAccepted
  /\ last.result \in WinOutcomes
  /\ prev.capturedA >= 6 \/ prev.capturedB >= 6

====
